---- MODULE Spec2Model ----
(***************************************************************************)
(* Synthetic pair + motion-vector supervision pipeline of                  *)
(* data/synth_dataset_me.py: Warper, MEHandler, pickle_ME, SynthDatasetME. *)
(*                                                                         *)
(* Numbers.  A crop fraction is a pair <<num, den>> standing for the float *)
(* num/den.  On every (side, fraction) the model enumerates, Python's      *)
(* int(side*crop) and int(side - side*crop) coincide with the exact        *)
(* rational floors used below (the sides are multiples of 16 and the       *)
(* products are either exact in binary floating point or far from an       *)
(* integer).  The random float draws are symbolic integer units.           *)
(*                                                                         *)
(* Images.  An image is [id, rows, cols]: rows and cols are the sequences  *)
(* of 0-based row and column indices of the pixel grid it was cut from, so *)
(* that slicing shows which rows and columns survive.                      *)
(***************************************************************************)
EXTENDS Integers, Sequences, FiniteSets, TLC

VARIABLES warper, warped, me_stable_runs, meh, clone, served, trace, ret,
          dataset, sample, me_args, procs, heap, invoked

vars == <<warper, warped, me_stable_runs, meh, clone, served, trace, ret,
          dataset, sample, me_args, procs, heap, invoked>>

\* ------------------------------------------------------------------ bounds
MaxBlocks == 2
MaxWarmUp == 3
MaxServed == 2
MaxRows == 2
MaxWorkers == 2

Sizes == {16 * k : k \in 1..MaxBlocks}
CropFractions == {<<0, 1>>, <<1, 16>>, <<1, 8>>, <<1, 5>>, <<1, 4>>, <<1, 2>>}
GeometricModels == {"affine_simple_4", "affine_simple"}
ModelTags == GeometricModels \cup {"tps"}
TxDraws == {-1, 1}
RotateDraws == {-1, 1}
ScaleDraws == {1}
ShiftDraws == {3}
Draws == [tx : TxDraws, branch : 0..4, rotate : RotateDraws,
          scale : ScaleDraws, shift : ShiftDraws]

None == <<>>
NoObj == [status |-> "none"]
Min(a, b) == IF a <= b THEN a ELSE b
Max(a, b) == IF a >= b THEN a ELSE b

\* ----------------------------------------------------------- python values
\* int(x * crop) for a non-negative x: truncation of the product
IntMulCrop(x, crop) == (x * crop[1]) \div crop[2]

\* int(x - x * crop) for 0 <= crop < 1
IntSubCrop(x, crop) == (x * crop[2] - x * crop[1]) \div crop[2]

\* range(n) as the sequence 0, 1, ..., n-1
Iota(n) == [k \in 1..n |-> k - 1]

\* seq[start:stop] for start >= 0 and any integer stop: a negative stop counts
\* from the end, both ends are clamped to the length
PySlice(s, start, stop) ==
    LET n  == Len(s)
        hi == IF stop < 0 THEN Max(n + stop, 0) ELSE Min(stop, n)
        lo == Min(start, n)
    IN  IF hi <= lo THEN <<>> ELSE SubSeq(s, lo + 1, hi)

\* seq[::step]: elements 0, step, 2*step, ...
PyStride(s, step) ==
    [k \in 1..((Len(s) + step - 1) \div step) |-> s[step * (k - 1) + 1]]

NewImage(id, H, W) ==
    [id |-> id, warp |-> None, rows |-> Iota(H), cols |-> Iota(W)]
Height(img) == Len(img.rows)
Width(img) == Len(img.cols)

\* ------------------------------------------------------------------ Warper
\* Warper.__init__.  add_tx / add_ty are None while the attribute does not
\* exist and <<v>> once it is assigned; reading a missing attribute raises
\* AttributeError and no object is constructed.  args records the
\* constructor's arguments, which the object does not keep.
WarperInit(H, W, geometric_model, crop, rnd) ==
    LET add_tx == IF geometric_model = "affine_simple_4" THEN <<TRUE>> ELSE None
        add_ty == IF geometric_model = "affine_simple" THEN <<FALSE>> ELSE None
        H_off  == IntMulCrop(H, crop) \div 2
        W_off  == IntMulCrop(W, crop) \div 2
        ident  == rnd.branch = 4
        mat0   == IF ident
                  THEN [angle |-> 0, scale |-> 1, center |-> None,
                        t0 |-> <<0, rnd.tx>>, t1 |-> <<0, 0>>]
                  ELSE [angle |-> rnd.rotate, scale |-> rnd.scale,
                        center |-> <<W \div 2, H \div 2>>,
                        t0 |-> <<1, rnd.tx>>, t1 |-> <<1, rnd.shift>>]
        theta0 == IF ident
                  THEN << <<0, 1>>, <<1, 1>>, <<0, 1>>, <<rnd.tx, W>> >>
                  ELSE << <<rnd.rotate, 1>>, <<rnd.scale, 1>>,
                          <<rnd.shift, H>>, <<rnd.tx, W>> >>
        args   == [geometric_model |-> geometric_model, crop |-> crop]
        base   == [status |-> "ok", args |-> args,
                   add_tx |-> add_tx, add_ty |-> add_ty,
                   H |-> H, W |-> W, H_off |-> H_off, W_off |-> W_off,
                   mat |-> mat0, theta |-> theta0]
    IN  IF geometric_model \notin GeometricModels
        THEN [status |-> "NotImplementedError", args |-> args]
        ELSE IF add_tx = None
        THEN [status |-> "AttributeError", args |-> args]
        ELSE IF ~add_tx[1]
        THEN [base EXCEPT !.mat.t0 = <<0, 0>>, !.theta = SubSeq(theta0, 1, 3)]
        ELSE base

\* a crop that removes the offset from the top and the left only
CropTopLeftOnly(w, img) ==
    [img EXCEPT !.rows = PySlice(img.rows, w.H_off, Len(img.rows)),
                !.cols = PySlice(img.cols, w.W_off, Len(img.cols))]

\* Warper.crop: img[H_off:-H_off, W_off:-W_off]
Crop(w, img) ==
    [img EXCEPT !.rows = PySlice(img.rows, w.H_off, 0 - w.H_off),
                !.cols = PySlice(img.cols, w.W_off, 0 - w.W_off)]

\* cv2.warpAffine(img, mat, dsize=(W, H)): a fresh H x W canvas resampled
\* from img through mat
WarpAffine(img, mat, W, H) ==
    [id |-> img.id, warp |-> <<mat>>, rows |-> Iota(H), cols |-> Iota(W)]

\* Warper.warp
Warp(w, img_L, img_R) ==
    <<Crop(w, img_L), Crop(w, WarpAffine(img_R, w.mat, w.W, w.H))>>

\* Warper.get_theta
GetTheta(w) == w.theta

\* ---------------------------------------------------- motion estimator (ME)
\* pythonME.me.ME is not part of the sources; it is modelled from its call
\* contract: a handle is built from (W, H, loss_metric), EstimateME(cur, ref)
\* mutates the handle, and the result on a fixed pair is stable once the
\* handle has seen me_stable_runs consecutive invocations on that pair.
\* Before that the result depends on what the handle saw earlier.
LossMetrics == {"colorindependent"}

ME_New(W, H, loss_metric) ==
    [W |-> W, H |-> H, loss_metric |-> loss_metric, last |-> None, runs |-> 0]

EstimateME(me, cur, ref) ==
    LET same  == me.last = << <<cur, ref>> >>
        runs  == IF same THEN Min(me.runs + 1, me_stable_runs) ELSE 1
        phase == IF runs >= me_stable_runs
                 THEN [stable |-> TRUE, runs |-> me_stable_runs, prev |-> None]
                 ELSE [stable |-> FALSE, runs |-> runs,
                       prev |-> <<me.last, me.runs>>]
    IN  [me  |-> [me EXCEPT !.last = << <<cur, ref>> >>, !.runs = runs],
         out |-> [W |-> me.W, H |-> me.H, loss_metric |-> me.loss_metric,
                  cur |-> cur, ref |-> ref, phase |-> phase]]

\* np.asarray(result): the (2, H, W) array of an estimator result.  An array
\* is a view of the result's grid: axes[d] lists, for dimension d, the
\* 0-based grid indices the view keeps, so that element [c, i, j] of the view
\* is the grid element (axes[1][c+1], axes[2][i+1], axes[3][j+1]).
AsArray(out) ==
    [src |-> out, axes |-> <<Iota(2), Iota(out.H), Iota(out.W)>>]

\* --------------------------------------------------------------- MEHandler
\* MEHandler.__init__
MEHandlerInit(H, W, loss_metric, runs_to_warm_up) ==
    [status |-> "ok", W |-> W, H |-> H, loss_metric |-> loss_metric,
     runs_to_warm_up |-> runs_to_warm_up,
     L2R_ME |-> ME_New(W, H, loss_metric),
     R2L_ME |-> ME_New(W, H, loss_metric)]

\* the for-loop of warmed_up_me: k invocations whose results are dropped
RECURSIVE WarmLoop(_, _, _, _)
WarmLoop(me, cur_img, ref_img, k) ==
    IF k <= 0
    THEN [me |-> me, calls |-> <<>>]
    ELSE LET e == EstimateME(me, cur_img, ref_img)
             r == WarmLoop(e.me, cur_img, ref_img, k - 1)
         IN  [me |-> r.me,
              calls |-> <<[cur |-> cur_img, ref |-> ref_img, out |-> e.out]>>
                        \o r.calls]

\* a warm-up loop that runs runs_to_warm_up times before the final invocation
WarmedUpMeOneMore(h, MEInstance, cur_img, ref_img) ==
    LET w == WarmLoop(MEInstance, cur_img, ref_img, h.runs_to_warm_up)
        e == EstimateME(w.me, cur_img, ref_img)
    IN  [me |-> e.me, out |-> e.out,
         calls |-> Append(w.calls,
                          [cur |-> cur_img, ref |-> ref_img, out |-> e.out])]

\* MEHandler.warmed_up_me: the handle after the call, the returned result and
\* the invocations made, in order
WarmedUpMe(h, MEInstance, cur_img, ref_img) ==
    LET w == WarmLoop(MEInstance, cur_img, ref_img, h.runs_to_warm_up - 1)
        e == EstimateME(w.me, cur_img, ref_img)
    IN  [me |-> e.me, out |-> e.out,
         calls |-> Append(w.calls,
                          [cur |-> cur_img, ref |-> ref_img, out |-> e.out])]

\* arr[..., 1::4, 1::4]: every 4th index starting at offset 1
SubsampleOffsetOne(arr) ==
    [arr EXCEPT !.axes = <<arr.axes[1], PyStride(Tail(arr.axes[2]), 4),
                           PyStride(Tail(arr.axes[3]), 4)>>]

\* arr[..., ::4, ::4]: every 4th index of the last two dimensions
Subsample(arr) ==
    [arr EXCEPT !.axes = <<arr.axes[1], PyStride(arr.axes[2], 4),
                           PyStride(arr.axes[3], 4)>>]

TagCalls(name, calls) ==
    [k \in 1..Len(calls) |-> [handle |-> name, cur |-> calls[k].cur,
                              ref |-> calls[k].ref, out |-> calls[k].out]]

\* a calculate_disparity whose backward estimate is not reversed
CalculateDisparitySameDirection(h, img_l, img_r) ==
    LET l2r == WarmedUpMe(h, h.L2R_ME, img_l, img_r)
        r2l == WarmedUpMe(h, h.R2L_ME, img_l, img_r)
    IN  [handler |-> [h EXCEPT !.L2R_ME = l2r.me, !.R2L_ME = r2l.me],
         ret     |-> <<Subsample(AsArray(l2r.out)),
                       Subsample(AsArray(r2l.out))>>,
         trace   |-> TagCalls("L2R_ME", l2r.calls)
                     \o TagCalls("R2L_ME", r2l.calls)]

\* MEHandler.calculate_disparity
CalculateDisparity(h, img_l, img_r) ==
    LET l2r == WarmedUpMe(h, h.L2R_ME, img_l, img_r)
        r2l == WarmedUpMe(h, h.R2L_ME, img_r, img_l)
    IN  [handler |-> [h EXCEPT !.L2R_ME = l2r.me, !.R2L_ME = r2l.me],
         ret     |-> <<Subsample(AsArray(l2r.out)),
                       Subsample(AsArray(r2l.out))>>,
         trace   |-> TagCalls("L2R_ME", l2r.calls)
                     \o TagCalls("R2L_ME", r2l.calls)]

\* a reduction that lists the width before the height
PickleMEWidthFirst(me) ==
    [callable |-> "MEHandler",
     args |-> <<me.W, me.H, me.loss_metric, me.runs_to_warm_up>>]

\* pickle_ME: the reduction registered with copyreg
PickleME(me) ==
    [callable |-> "MEHandler",
     args |-> <<me.H, me.W, me.loss_metric, me.runs_to_warm_up>>]

\* unpickling a reduction: callable(*args)
Reconstruct(red) ==
    MEHandlerInit(red.args[1], red.args[2], red.args[3], red.args[4])

\* ---------------------------------------------------------- SynthDatasetME
\* pd.read_csv: one row per manifest line, labelled 0, 1, ... in file order;
\* the first column is the image name
ReadCsv(csv) == [k \in 1..Len(csv) |-> [label |-> k - 1, cols |-> csv[k]]]

\* DataFrame.iloc[:, 0]: the first column, keeping the row labels
FirstColumn(frame) ==
    [k \in 1..Len(frame) |-> [label |-> frame[k].label,
                              value |-> frame[k].cols[1]]]

\* a constructor whose cap keeps one row too few
DatasetInitOffByOne(csv, h, w, crop, geometric_model, dataset_size) ==
    LET frame      == ReadCsv(csv)
        train_data == IF dataset_size # 0
                      THEN PySlice(frame, 0,
                                   Min(dataset_size, Len(frame)) - 1)
                      ELSE frame
    IN  [status |-> "ok", csv |-> csv, h |-> h, w |-> w,
         train_data |-> train_data, dataset_size |-> dataset_size,
         img_names |-> FirstColumn(train_data),
         geometric_model |-> geometric_model, crop |-> crop,
         me_handler |-> MEHandlerInit(IntSubCrop(h, crop), IntSubCrop(w, crop),
                                      "colorindependent", 2)]

\* SynthDatasetME.__init__ (csv, h and w are kept as a record of the
\* constructor's arguments; the object itself does not store them)
DatasetInit(csv, h, w, crop, geometric_model, dataset_size) ==
    LET frame      == ReadCsv(csv)
        train_data == IF dataset_size # 0
                      THEN PySlice(frame, 0, Min(dataset_size, Len(frame)))
                      ELSE frame
    IN  [status |-> "ok", csv |-> csv, h |-> h, w |-> w,
         train_data |-> train_data, dataset_size |-> dataset_size,
         img_names |-> FirstColumn(train_data),
         geometric_model |-> geometric_model, crop |-> crop,
         me_handler |-> MEHandlerInit(IntSubCrop(h, crop), IntSubCrop(w, crop),
                                      "colorindependent", 2)]

\* SynthDatasetME.__len__
DatasetLen(ds) == Len(ds.train_data)

\* self.img_names[idx]: lookup by row label; <<name>> or None (KeyError)
ImgNameAt(ds, idx) ==
    LET hits == {k \in 1..Len(ds.img_names) : ds.img_names[k].label = idx}
    IN  IF hits = {} THEN None
        ELSE <<ds.img_names[CHOOSE k \in hits : TRUE].value>>

\* io.imread: the stored images have the configured size h x w
ImRead(ds, name) == NewImage(name, ds.h, ds.w)

\* torch.Tensor(x.astype(np.float32))
ToTensor32(x) == [dtype |-> "float32", value |-> x]

\* SynthDatasetME.__getitem__: the sample (or the exception raised), the
\* images handed to calculate_disparity and the dataset afterwards
GetItem(ds, idx, rnd) ==
    LET name == ImgNameAt(ds, idx)
        img  == ImRead(ds, name[1])
        wp   == WarperInit(Height(img), Width(img), ds.geometric_model,
                           ds.crop, rnd)
        pair == Warp(wp, img, img)
        d    == CalculateDisparity(ds.me_handler, pair[1], pair[2])
    IN  IF name = None
        THEN [ds |-> ds, args |-> NoObj, sample |-> [status |-> "KeyError"]]
        ELSE IF wp.status # "ok"
        THEN [ds |-> ds, args |-> NoObj,
              sample |-> [status |-> wp.status, img_name |-> name[1]]]
        ELSE [ds |-> [ds EXCEPT !.me_handler = d.handler],
              args |-> [status |-> "ok", img_l |-> pair[1], img_r |-> pair[2]],
              sample |-> [status |-> "ok", img_name |-> name[1],
                          mv_L2R |-> ToTensor32(d.ret[1]),
                          mv_R2L |-> ToTensor32(d.ret[2]),
                          theta_GT |-> ToTensor32(GetTheta(wp))]]

\* =================================================== Warper on its own
SourceImage(H, W) == NewImage(1, H, W)

InitWarper ==
    /\ warper \in {WarperInit(H, W, g, c, rnd) :
                      H \in Sizes, W \in Sizes, g \in ModelTags,
                      c \in CropFractions, rnd \in Draws}
    /\ warped = NoObj
    /\ me_stable_runs = 1
    /\ meh = NoObj /\ clone = NoObj /\ served = 0
    /\ procs = <<>> /\ heap = <<>> /\ invoked = {}
    /\ trace = <<>> /\ ret = NoObj
    /\ dataset = NoObj /\ sample = NoObj /\ me_args = NoObj

\* warper = Warper(H, W, geometric_model, crop)
NewWarper(H, W, g, c, rnd) ==
    /\ warper' = WarperInit(H, W, g, c, rnd)
    /\ warped' = NoObj
    /\ UNCHANGED <<procs, heap, invoked,
                   me_stable_runs, meh, clone, served, trace, ret,
                   dataset, sample, me_args>>

\* image_L, image_R = warper.warp(image_L, image_L.copy())
DoWarp ==
    /\ warper.status = "ok"
    /\ LET img == SourceImage(warper.H, warper.W)
           p   == Warp(warper, img, img)
       IN  warped' = [status |-> "ok", img_L |-> p[1], img_R |-> p[2]]
    /\ UNCHANGED <<procs, heap, invoked,
                   warper, me_stable_runs, meh, clone, served, trace, ret,
                   dataset, sample, me_args>>

NextWarper ==
    \/ \E H \in Sizes, W \in Sizes, g \in ModelTags, c \in CropFractions,
          rnd \in Draws : NewWarper(H, W, g, c, rnd)
    \/ DoWarp

SpecWarper == InitWarper /\ [][NextWarper]_vars

\* ================================================= MEHandler on its own
MEImages == {NewImage(id, meh.H, meh.W) : id \in {1, 2}}

InitME ==
    /\ \E H \in Sizes, W \in Sizes, m \in LossMetrics, n \in 1..MaxWarmUp :
          /\ meh = MEHandlerInit(H, W, m, n)
          /\ me_stable_runs \in 1..n
    /\ clone = NoObj /\ served = 0
    /\ procs = <<>> /\ heap = <<>> /\ invoked = {}
    /\ trace = <<>> /\ ret = NoObj
    /\ warper = NoObj /\ warped = NoObj
    /\ dataset = NoObj /\ sample = NoObj /\ me_args = NoObj

\* me_handler.warmed_up_me(me_handler.<sel>, cur, ref)
CallWarmedUpMe(sel, cur, ref) ==
    /\ served < MaxServed
    /\ LET r == WarmedUpMe(meh, IF sel = "L2R_ME" THEN meh.L2R_ME
                                 ELSE meh.R2L_ME, cur, ref)
       IN  /\ meh' = IF sel = "L2R_ME" THEN [meh EXCEPT !.L2R_ME = r.me]
                                       ELSE [meh EXCEPT !.R2L_ME = r.me]
           /\ ret' = [status |-> "ok", op |-> "warmed_up_me", on |-> "meh",
                      cur |-> cur, ref |-> ref, value |-> <<r.out>>]
           /\ trace' = TagCalls(sel, r.calls)
    /\ served' = served + 1
    /\ UNCHANGED <<procs, heap, invoked,
                   warper, warped, me_stable_runs, clone, dataset, sample,
                   me_args>>

\* me_handler.calculate_disparity(img_l, img_r)
CallCalculateDisparity(img_l, img_r) ==
    /\ served < MaxServed
    /\ LET d == CalculateDisparity(meh, img_l, img_r)
       IN  /\ meh' = d.handler
           /\ ret' = [status |-> "ok", op |-> "calculate_disparity",
                      on |-> "meh", cur |-> img_l, ref |-> img_r,
                      value |-> d.ret]
           /\ trace' = d.trace
    /\ served' = served + 1
    /\ UNCHANGED <<procs, heap, invoked,
                   warper, warped, me_stable_runs, clone, dataset, sample,
                   me_args>>

\* pickle.loads(pickle.dumps(me_handler)) through the copyreg reduction
PickleRoundTrip ==
    /\ clone' = Reconstruct(PickleME(meh))
    /\ UNCHANGED <<procs, heap, invoked,
                   warper, warped, me_stable_runs, meh, served, trace, ret,
                   dataset, sample, me_args>>

\* the reconstructed handler serves a calculate_disparity call
CloneCalculateDisparity(img_l, img_r) ==
    /\ clone.status = "ok"
    /\ served < MaxServed
    /\ LET d == CalculateDisparity(clone, img_l, img_r)
       IN  /\ clone' = d.handler
           /\ ret' = [status |-> "ok", op |-> "calculate_disparity",
                      on |-> "clone", cur |-> img_l, ref |-> img_r,
                      value |-> d.ret]
           /\ trace' = d.trace
    /\ served' = served + 1
    /\ UNCHANGED <<procs, heap, invoked,
                   warper, warped, me_stable_runs, meh, dataset, sample,
                   me_args>>

NextME ==
    \/ \E sel \in {"L2R_ME", "R2L_ME"}, cur \in MEImages, ref \in MEImages :
          CallWarmedUpMe(sel, cur, ref)
    \/ \E l \in MEImages, r \in MEImages : CallCalculateDisparity(l, r)
    \/ PickleRoundTrip
    \/ \E l \in MEImages, r \in MEImages : CloneCalculateDisparity(l, r)

SpecME == InitME /\ [][NextME]_vars

\* ======================================================== the dataset
\* manifest row k: <<image name, transform metadata>>
Manifest(R) == [k \in 1..R |-> <<10 * k, "meta">>]

InitData ==
    /\ dataset \in {DatasetInit(Manifest(R), h, w, c, g, N) :
                       R \in 1..MaxRows, h \in Sizes, w \in Sizes,
                       c \in CropFractions, g \in GeometricModels,
                       N \in 0..(MaxRows + 1)}
    /\ me_stable_runs \in 1..2
    /\ sample = NoObj /\ me_args = NoObj
    /\ warper = NoObj /\ warped = NoObj
    /\ meh = NoObj /\ clone = NoObj /\ served = 0
    /\ procs = <<>> /\ heap = <<>> /\ invoked = {}
    /\ trace = <<>> /\ ret = NoObj

\* sample = dataset[idx]
DatasetGetItem(idx, rnd) ==
    /\ LET g == GetItem(dataset, idx, rnd)
       IN  /\ dataset' = g.ds
           /\ sample' = g.sample
           /\ me_args' = g.args
    /\ UNCHANGED <<procs, heap, invoked,
                   warper, warped, me_stable_runs, meh, clone, served, trace,
                   ret>>

NextData == \E idx \in 0..MaxRows, rnd \in Draws : DatasetGetItem(idx, rnd)

SpecData == InitData /\ [][NextData]_vars

\* ============================================ data-loading workers
\* Estimator handles are objects: heap[a] is the state of the handle at
\* address a, and an MEHandler attribute L2R_ME / R2L_ME holds an address.
\* procs[0] is the parent process, procs[1..MaxWorkers] the workers of the
\* DataLoader; invoked records which process invoked which handle.

\* the handler with its two handles placed at fresh addresses
Store(h, hp) ==
    [handler |-> [h EXCEPT !.L2R_ME = Len(hp) + 1, !.R2L_ME = Len(hp) + 2],
     heap    |-> hp \o <<h.L2R_ME, h.R2L_ME>>]

\* the handler with the current states of the handles it points to
Load(h, hp) == [h EXCEPT !.L2R_ME = hp[h.L2R_ME], !.R2L_ME = hp[h.R2L_ME]]

\* a copy of the dataset that shares the estimator handles of the original
DuplicateDatasetShared(ds, hp) == [ds |-> ds, heap |-> hp]

\* the dataset as a worker receives it through pickle: every attribute is
\* copied by value, and me_handler goes through the registered reduction,
\* MEHandler(H, W, loss_metric, runs_to_warm_up), which builds two handles
DuplicateDataset(ds, hp) ==
    LET st == Store(Reconstruct(PickleME(ds.me_handler)), hp)
    IN  [ds |-> [ds EXCEPT !.me_handler = st.handler], heap |-> st.heap]

Workers == 1..MaxWorkers
Handles(p) == {procs[p].ds.me_handler.L2R_ME, procs[p].ds.me_handler.R2L_ME}
Running == {p \in DOMAIN procs : procs[p].status = "ok"}
WorkerDraws == {d \in Draws : d.tx = 1 /\ d.rotate = 1 /\ d.branch \in {0, 4}}

InitWorkers ==
    /\ \E h \in Sizes, w \in Sizes :
          LET ds == DatasetInit(Manifest(2), h, w, <<1, 4>>,
                                "affine_simple_4", 0)
              st == Store(ds.me_handler, <<>>)
          IN  /\ procs = [p \in 0..MaxWorkers |->
                            IF p = 0
                            THEN [status |-> "ok",
                                  ds |-> [ds EXCEPT !.me_handler = st.handler]]
                            ELSE NoObj]
              /\ heap = st.heap
    /\ invoked = {}
    /\ me_stable_runs \in 1..2
    /\ served = 0
    /\ sample = NoObj /\ me_args = NoObj
    /\ dataset = NoObj
    /\ warper = NoObj /\ warped = NoObj
    /\ meh = NoObj /\ clone = NoObj
    /\ trace = <<>> /\ ret = NoObj

\* the DataLoader starts worker w with a duplicate of the parent's dataset
StartWorker(w) ==
    /\ procs[w].status = "none"
    /\ LET d == DuplicateDataset(procs[0].ds, heap)
       IN  /\ procs' = [procs EXCEPT ![w] = [status |-> "ok", ds |-> d.ds]]
           /\ heap' = d.heap
    /\ UNCHANGED <<warper, warped, me_stable_runs, meh, clone, served, trace,
                   ret, dataset, sample, me_args, invoked>>

\* process p runs dataset[idx] on its own copy of the dataset
ProcGetItem(p, idx, rnd) ==
    /\ procs[p].status = "ok"
    /\ served < MaxServed
    /\ LET mine == procs[p].ds.me_handler
           g    == GetItem([procs[p].ds EXCEPT !.me_handler = Load(mine, heap)],
                           idx, rnd)
       IN  /\ heap' = IF g.args.status = "ok"
                      THEN [a \in DOMAIN heap |->
                              IF a = mine.R2L_ME THEN g.ds.me_handler.R2L_ME
                              ELSE IF a = mine.L2R_ME
                              THEN g.ds.me_handler.L2R_ME
                              ELSE heap[a]]
                      ELSE heap
           /\ invoked' = IF g.args.status = "ok"
                         THEN invoked \cup {<<p, mine.L2R_ME>>,
                                            <<p, mine.R2L_ME>>}
                         ELSE invoked
           /\ sample' = g.sample
           /\ me_args' = g.args
    /\ served' = served + 1
    /\ UNCHANGED <<warper, warped, me_stable_runs, meh, clone, trace, ret,
                   dataset, procs>>

NextWorkers ==
    \/ \E w \in Workers : StartWorker(w)
    \/ \E p \in 0..MaxWorkers, idx \in 0..1, rnd \in WorkerDraws :
          ProcGetItem(p, idx, rnd)

SpecWorkers == InitWorkers /\ [][NextWorkers]_vars

\* ================================================================ claims

\* C1: for each supported geometric-model tag, constructing a Warper
\* succeeds and get_theta() has length 4 for 'affine_simple_4' and length 3
\* for 'affine_simple', in both random branches.
C1_ThetaLength ==
    (warper.status # "none" /\ warper.args.geometric_model \in GeometricModels)
    => /\ warper.status = "ok"
       /\ Len(GetTheta(warper)) =
            (IF warper.args.geometric_model = "affine_simple_4" THEN 4 ELSE 3)

\* C2: the MEHandler built in SynthDatasetME.__init__ has the height and
\* width of the cropped images __getitem__ hands to calculate_disparity,
\* which are (h - 2*H_off, w - 2*W_off).
C2_HandlerSizedToCrop ==
    me_args.status = "ok"
    => LET H_off == IntMulCrop(dataset.h, dataset.crop) \div 2
           W_off == IntMulCrop(dataset.w, dataset.crop) \div 2
       IN  \A img \in {me_args.img_l, me_args.img_r} :
             /\ Height(img) = dataset.h - 2 * H_off
             /\ Width(img) = dataset.w - 2 * W_off
             /\ dataset.me_handler.H = Height(img)
             /\ dataset.me_handler.W = Width(img)

\* C3: one warmed_up_me call on a handler with warm-up count n invokes
\* EstimateME exactly n times, each time on the identical (cur, ref) pair,
\* and returns the result of the last invocation; inside
\* calculate_disparity each of the two handles is likewise invoked n times.
C3_WarmUpInvocations ==
    /\ (ret.status = "ok" /\ ret.op = "warmed_up_me")
       => /\ Len(trace) = meh.runs_to_warm_up
          /\ \A k \in 1..Len(trace) :
                trace[k].cur = ret.cur /\ trace[k].ref = ret.ref
          /\ ret.value = <<trace[Len(trace)].out>>
    /\ (ret.status = "ok" /\ ret.op = "calculate_disparity")
       => LET n == IF ret.on = "meh" THEN meh.runs_to_warm_up
                                     ELSE clone.runs_to_warm_up
          IN  /\ Len(trace) = 2 * n
              /\ \A k \in 1..(2 * n) :
                    trace[k].handle = (IF k <= n THEN "L2R_ME" ELSE "R2L_ME")

C3_Witness ==
    /\ ret.status = "ok" /\ ret.op = "warmed_up_me"
    /\ meh.runs_to_warm_up = 3
    /\ Len(trace) = 3
    /\ trace[1].out # trace[3].out
    /\ trace[2].out # trace[3].out

\* C4: in a calculate_disparity(img_l, img_r) call L2R_ME is invoked only
\* with (img_l, img_r) and R2L_ME only with (img_r, img_l), and the result
\* is (forward, backward), each taken from the last invocation of its own
\* handle.
LastOut(name) ==
    LET ks == {k \in 1..Len(trace) : trace[k].handle = name}
    IN  trace[CHOOSE k \in ks : \A j \in ks : j <= k].out

C4_Directions ==
    (ret.status = "ok" /\ ret.op = "calculate_disparity")
    => /\ \A k \in 1..Len(trace) :
             \/ /\ trace[k].handle = "L2R_ME"
                /\ trace[k].cur = ret.cur /\ trace[k].ref = ret.ref
             \/ /\ trace[k].handle = "R2L_ME"
                /\ trace[k].cur = ret.ref /\ trace[k].ref = ret.cur
       /\ \E k \in 1..Len(trace) : trace[k].handle = "L2R_ME"
       /\ \E k \in 1..Len(trace) : trace[k].handle = "R2L_ME"
       /\ ret.value[1].src = LastOut("L2R_ME")
       /\ ret.value[2].src = LastOut("R2L_ME")

C4_Witness ==
    /\ ret.status = "ok" /\ ret.op = "calculate_disparity"
    /\ ret.cur # ret.ref
    /\ ret.value[1].src # ret.value[2].src
    /\ meh.runs_to_warm_up >= 2

\* C5: for H and W divisible by 16 and an estimator result of shape
\* (2, H, W), each field returned by calculate_disparity has shape
\* (2, H div 4, W div 4) and its element [c, i, j] is the result's element
\* [c, 4*i, 4*j].
C5_Subsampled ==
    (ret.status = "ok" /\ ret.op = "calculate_disparity")
    => \A f \in {ret.value[1], ret.value[2]} :
         (f.src.H % 16 = 0 /\ f.src.W % 16 = 0)
         => /\ Len(f.axes) = 3
            /\ Len(f.axes[1]) = 2
            /\ Len(f.axes[2]) = f.src.H \div 4
            /\ Len(f.axes[3]) = f.src.W \div 4
            /\ \A c \in 0..1 : f.axes[1][c + 1] = c
            /\ \A i \in 0..(Len(f.axes[2]) - 1) : f.axes[2][i + 1] = 4 * i
            /\ \A j \in 0..(Len(f.axes[3]) - 1) : f.axes[3][j + 1] = 4 * j

C5_Witness ==
    /\ ret.status = "ok" /\ ret.op = "calculate_disparity"
    /\ ret.value[1].src.H # ret.value[1].src.W
    /\ ret.value[1].src.H % 16 = 0 /\ ret.value[1].src.W % 16 = 0
    /\ Len(ret.value[1].axes[2]) >= 4

\* C6: H_off = floor(floor(H*crop)/2) and W_off = floor(floor(W*crop)/2)
\* (256 and 0.2 give 25), and when both are at least 1 warp returns two
\* images of exactly H - 2*H_off rows and W - 2*W_off columns, H_off rows
\* gone from top and bottom and W_off columns from left and right (206 x 206
\* in the example).
C6_Example ==
    LET w == WarperInit(256, 256, "affine_simple_4", <<1, 5>>,
                        [tx |-> 1, branch |-> 0, rotate |-> 1, scale |-> 1,
                         shift |-> 3])
        p == Warp(w, SourceImage(256, 256), SourceImage(256, 256))
    IN  /\ w.H_off = 25 /\ w.W_off = 25
        /\ \A k \in 1..2 : Height(p[k]) = 206 /\ Width(p[k]) = 206

C6_CropOffsets ==
    /\ warper.status = "ok"
       => LET num == warper.args.crop[1]
              den == warper.args.crop[2]
          IN  /\ 2 * den * warper.H_off <= warper.H * num
              /\ warper.H * num < 2 * den * (warper.H_off + 1)
              /\ 2 * den * warper.W_off <= warper.W * num
              /\ warper.W * num < 2 * den * (warper.W_off + 1)
    /\ (warped.status = "ok" /\ warper.H_off >= 1 /\ warper.W_off >= 1)
       => \A img \in {warped.img_L, warped.img_R} :
            /\ Height(img) = warper.H - 2 * warper.H_off
            /\ Width(img) = warper.W - 2 * warper.W_off
            /\ \A k \in 1..Height(img) : img.rows[k] = warper.H_off + k - 1
            /\ \A k \in 1..Width(img) : img.cols[k] = warper.W_off + k - 1
    /\ C6_Example

C6_Witness ==
    /\ warped.status = "ok"
    /\ warper.H_off >= 2 /\ warper.W_off >= 1
    /\ warper.H_off # warper.W_off
    /\ Height(warped.img_R) = warper.H - 2 * warper.H_off
    /\ warper.args.crop = <<1, 5>>

\* C7: when H_off (W_off) is 0, crop is not an error and keeps all H rows
\* (all W columns).
C7_ZeroOffsetKeepsAll ==
    warped.status = "ok"
    => \A img \in {warped.img_L, warped.img_R} :
         /\ warper.H_off = 0 => Height(img) = warper.H
         /\ warper.W_off = 0 => Width(img) = warper.W

\* C8: with R manifest rows and cap N, the dataset length is min(N, R) when
\* N is nonzero and R when N is 0, and index i below the length gives the
\* image name of manifest row i (10 rows with N = 5: length 5, rows 0..4).
C8_Example ==
    LET ds == DatasetInit(Manifest(10), 16, 16, <<0, 1>>, "affine_simple_4", 5)
    IN  /\ DatasetLen(ds) = 5
        /\ \A i \in 0..4 : ImgNameAt(ds, i) = <<Manifest(10)[i + 1][1]>>
        /\ ImgNameAt(ds, 5) = None

C8_CappedIndex ==
    /\ dataset.status = "ok"
       => LET R == Len(dataset.csv)
              N == dataset.dataset_size
              n == DatasetLen(dataset)
          IN  /\ n = (IF N # 0 THEN Min(N, R) ELSE R)
              /\ \A i \in 0..(n - 1) :
                    ImgNameAt(dataset, i) = <<dataset.csv[i + 1][1]>>
    /\ (sample.status # "none" /\ sample.status # "KeyError")
       => \E i \in 0..(DatasetLen(dataset) - 1) :
            sample.img_name = dataset.csv[i + 1][1]
    /\ C8_Example

C8_Witness ==
    /\ dataset.status = "ok"
    /\ dataset.dataset_size # 0
    /\ dataset.dataset_size < Len(dataset.csv)
    /\ DatasetLen(dataset) = dataset.dataset_size
    /\ sample.status = "ok"
    /\ sample.img_name = dataset.csv[DatasetLen(dataset)][1]

C10_MultipleOf16 ==
    (me_args.status = "ok" /\ dataset.h % 16 = 0 /\ dataset.w % 16 = 0)
    => \A img \in {me_args.img_l, me_args.img_r} :
         Height(img) % 16 = 0 /\ Width(img) % 16 = 0

\* C11: every running process (the parent and each worker) owns two
\* estimator handles of its own, a worker's handles are newly constructed
\* from (H, W, loss_metric, runs_to_warm_up) of the parent's handler, no
\* handle is ever invoked by two different processes, and a step never
\* changes the handle states of two processes (so a call in one worker
\* leaves the handles of every other process as they were).
C11_Owned ==
    /\ \A p \in Running :
          LET h == procs[p].ds.me_handler
          IN  /\ h.L2R_ME # h.R2L_ME
              /\ Handles(p) \subseteq DOMAIN heap
              /\ \A q \in Running \ {p} : Handles(p) \cap Handles(q) = {}
              /\ (p # 0 /\ \A a \in Handles(p) : <<p, a>> \notin invoked)
                 => /\ h.H = procs[0].ds.me_handler.H
                    /\ h.W = procs[0].ds.me_handler.W
                    /\ h.loss_metric = procs[0].ds.me_handler.loss_metric
                    /\ h.runs_to_warm_up
                         = procs[0].ds.me_handler.runs_to_warm_up
                    /\ \A a \in Handles(p) :
                          heap[a] = ME_New(h.W, h.H, h.loss_metric)
    /\ \A x \in invoked, y \in invoked : x[2] = y[2] => x[1] = y[1]
    /\ \A x \in invoked : x[1] \in Running /\ x[2] \in Handles(x[1])

C11_Step ==
    LET changed(p) == \E a \in Handles(p) : heap'[a] # heap[a]
    IN  \A p \in Running :
          changed(p)
          => /\ \A q \in Running \ {p} : ~changed(q)
             /\ \A a \in Handles(p) : <<p, a>> \in invoked'

====
